---- MODULE Spec2Model ----
(***************************************************************************)
(* memsafe: a secure cell that keeps one value of type T in a dedicated,   *)
(* locked, page-protected allocation.                                      *)
(*                                                                         *)
(* The repository holds four front ends over the same allocation life      *)
(* cycle:                                                                  *)
(*   "mem_safe"   guard API over Cell     (src/mem_safe.rs, src/cell.rs)   *)
(*   "gaurd"      guard API over MemSafePtr            (src/gaurd.rs)      *)
(*   "lib"        typed-state API over a raw pointer   (src/lib.rs)        *)
(*   "type_state" typed-state API over Cell (src/type_state.rs, cell.rs)   *)
(* and three platform configurations:                                      *)
(*   "linux"   cfg(unix) + cfg(target_os = "linux"): NoAccess floor,       *)
(*             MADV_DONTDUMP                                               *)
(*   "unix"    cfg(unix), not linux: NoAccess floor, no dump exclusion     *)
(*   "windows" cfg(windows): ReadOnly floor, no dump exclusion             *)
(*                                                                         *)
(* The operating system is modelled as a table of regions (mem); every     *)
(* system call may fail, and a failed call changes nothing.  Construction  *)
(* and destruction are modelled statement by statement so that orderings   *)
(* and the states in between are visible.                                  *)
(*                                                                         *)
(* Spec is the program run by one thread.  SpecThreads adds threads: a     *)
(* handle can be moved to another thread (Send) and a typed-state handle   *)
(* of a Sync state type can be shared by reference among threads.          *)
(* SpecLive is SpecThreads with the progress a running drop makes.         *)
(* SpecCells is a program that owns two cells at a time.                   *)
(***************************************************************************)
EXTENDS Integers, Sequences, FiniteSets, TLC

\* ---------------------------------------------------------------- bounds
\* size_of::<T>() of the stored type, in bytes
SizeOfT == 2
\* largest byte value of the model
MaxByte == 1
\* number of cells a program may create
NumCells == 2
\* number of distinct regions the OS can hand out
NumAddrs == 2
\* cap on simultaneously outstanding guards (reached only if borrowing is broken)
MaxGuards == 2
\* number of threads of the program, the main thread included
NumThreads == 2

Cells == 1..NumCells
Addrs == 1..NumAddrs
Byte == 0..MaxByte
Threads == 1..NumThreads
\* The thread that runs main (or the test function) and constructs the cells.
MainThread == 1
Values == [1..SizeOfT -> Byte]
Zeroes == [i \in 1..SizeOfT |-> 0]

Platforms == {"linux", "unix", "windows"}
Apis == {"mem_safe", "gaurd", "lib", "type_state"}
GuardApis == {"mem_safe", "gaurd"}
TypedApis == {"lib", "type_state"}
Prots == {"NoAccess", "ReadOnly", "ReadWrite"}

VARIABLES
    platform,   \* the build configuration (cfg)
    api,        \* the front end the program uses
    ncells,     \* how many cells the program creates
    mem,        \* the OS view of every region: mapped, protection, locked, dump flag, bytes
    cells       \* per cell: the handle, the statement it is at, and history

vars == <<platform, api, ncells, mem, cells>>

\* ------------------------------------------------------- the OS primitives
\* A region that is not mapped.
Unmapped ==
    [mapped |-> FALSE, prot |-> "NoAccess", locked |-> FALSE, nodump |-> FALSE,
     bytes |-> Zeroes]

\* mmap(len, PROT_READ | PROT_WRITE, MAP_PRIVATE | MAP_ANONYMOUS): zero-filled, read-write.
mmap ==
    [mapped |-> TRUE, prot |-> "ReadWrite", locked |-> FALSE, nodump |-> FALSE,
     bytes |-> Zeroes]

\* mprotect / VirtualProtect: sets the protection when the call succeeds.
mprotect(m, prot, ok) == IF ok /\ m.mapped THEN [m EXCEPT !.prot = prot] ELSE m

\* mlock / VirtualLock
mlock(m, ok) == IF ok /\ m.mapped THEN [m EXCEPT !.locked = TRUE] ELSE m

\* munlock / VirtualUnlock
munlock(m, ok) == IF ok /\ m.mapped THEN [m EXCEPT !.locked = FALSE] ELSE m

\* madvise(MADV_DONTDUMP)
madvice(m, ok) == IF ok /\ m.mapped THEN [m EXCEPT !.nodump = TRUE] ELSE m

\* munmap / VirtualFree: the region is gone.
munmap(m, ok) == IF ok /\ m.mapped THEN Unmapped ELSE m

\* The hardware check on a load / a store.
CanRead(m) == m.mapped /\ m.prot \in {"ReadOnly", "ReadWrite"}
CanWrite(m) == m.mapped /\ m.prot = "ReadWrite"

\* ------------------------------------------------------------ raw pointers
\* ptr.write(val): the region takes the bytes of val.
ptr_write(m, val) == [m EXCEPT !.bytes = val]

\* ptr_fill_zero(ptr): every one of the size_of::<T>() bytes becomes zero.
ptr_fill_zero(bytes) == [i \in DOMAIN bytes |-> 0]

\* &*ptr: the bytes the pointer refers to.
ptr_deref(m) == m.bytes

\* ------------------------------------------------------------- the cell
\* Mutant: the cfg(unix) branch is compiled on every platform.
Floor_noaccess(p) == "NoAccess"

\* The least-privilege state of the platform.
Floor(p) == IF p = "windows" THEN "ReadOnly" ELSE "NoAccess"

\* Mutant: the value is moved into the region before the region is locked.
NewSteps_write_first(p) ==
    IF p = "linux"
    THEN <<"alloc", "write", "lock", "no_dump", "fill_zero", "protect">>
    ELSE <<"alloc", "write", "lock", "fill_zero", "protect">>

\* Mutant: the region is locked only after it was lowered to the floor.
NewSteps_lock_last(p) ==
    IF p = "linux"
    THEN <<"alloc", "no_dump", "write", "fill_zero", "protect", "lock">>
    ELSE <<"alloc", "write", "fill_zero", "protect", "lock">>

\* Mutant: mem_no_dump is compiled in, and called, on every platform.
NewSteps_dump_everywhere(p) ==
    <<"alloc", "lock", "no_dump", "write", "fill_zero", "protect">>

\* The statements of the constructor, in program order.
NewSteps(p) ==
    IF p = "linux"
    THEN <<"alloc", "lock", "no_dump", "write", "fill_zero", "protect">>
    ELSE <<"alloc", "lock", "write", "fill_zero", "protect">>

\* Mutant: the region is wiped before the destructor of the value runs.
DropSteps_zero_first ==
    <<"readwrite", "fill_zero", "drop_in_place", "unlock", "dealloc">>

\* The statements of the destructor, in program order.
DropSteps == <<"readwrite", "drop_in_place", "fill_zero", "unlock", "dealloc">>

NoCell ==
    [st |-> "none", pc |-> 0, ptr |-> 0, base |-> 0, tstate |-> "-", guards |-> <<>>,
     donor |-> Zeroes, stored |-> FALSE, shadow |-> Zeroes, lastRead |-> <<>>,
     nlog |-> <<>>, dlog |-> <<>>, dtorSaw |-> <<>>, zeroProt |-> "-",
     res |-> "-", primFailed |-> FALSE, unwinding |-> FALSE,
     op |-> "-", held |-> "-", asked |-> "-",
     holders |-> {}, sharers |-> {}, moved |-> FALSE, crossRead |-> FALSE]

Init ==
    /\ platform \in Platforms
    /\ api \in Apis
    /\ ncells = 1
    /\ mem = [a \in Addrs |-> Unmapped]
    /\ cells = [c \in Cells |-> NoCell]

\* No cell is in the middle of a constructor or destructor (one thread of control).
Quiet == \A d \in Cells : cells[d].st \notin {"new", "drop"}

Set(c, r) == cells' = [cells EXCEPT ![c] = r]
Frame == UNCHANGED <<platform, api, ncells>>

\* The statement the constructor / destructor of cell c is at.
AtNew(c, s) ==
    /\ c \in 1..ncells
    /\ cells[c].st = "new"
    /\ cells[c].pc \in DOMAIN NewSteps(platform)
    /\ NewSteps(platform)[cells[c].pc] = s

\* Mutant: drop blocks in front of every statement.
AtDrop_blocked(c, s) == FALSE

AtDrop(c, s) ==
    /\ c \in 1..ncells
    /\ cells[c].st = "drop"
    /\ cells[c].pc \in DOMAIN DropSteps
    /\ DropSteps[cells[c].pc] = s

\* Mutant: the result of the failing call is dropped and construct goes on.
NewErr_ignored(r, s) == [r EXCEPT !.pc = @ + 1, !.nlog = Append(@, s)]

\* `?` in the constructor: the error is returned, nothing is undone.
NewErr(r, s) ==
    [r EXCEPT !.st = "err", !.pc = 0, !.res = "Err", !.primFailed = TRUE,
              !.nlog = Append(@, s)]

\* The statement after s of the constructor; past the last one the handle exists.
NewOk(r, s) ==
    IF r.pc = Len(NewSteps(platform))
    THEN [r EXCEPT !.st = "live", !.pc = 0, !.res = "Ok", !.nlog = Append(@, s),
                   !.tstate = IF api \in TypedApis THEN Floor(platform) ELSE "-"]
    ELSE [r EXCEPT !.pc = @ + 1, !.nlog = Append(@, s)]

\* MemSafe::new(value): the argument is bound to `value`.
New(c, v) ==
    /\ c \in 1..ncells
    /\ Quiet
    /\ cells[c].st = "none"
    /\ \A d \in 1..(c - 1) : cells[d].st # "none"
    /\ Set(c, [NoCell EXCEPT !.st = "new", !.pc = 1, !.donor = v,
                             !.shadow = v, !.holders = {MainThread}])
    /\ UNCHANGED mem
    /\ Frame

\* Mutant: the allocator hands out any address, mapped or not (MAP_FIXED).
NewAlloc_aliased(c) ==
    /\ AtNew(c, "alloc")
    /\ \/ \E a \in Addrs :
            /\ mem' = [mem EXCEPT ![a] = mmap]
            /\ Set(c, NewOk([cells[c] EXCEPT !.ptr = a, !.base = a], "alloc"))
       \/ /\ UNCHANGED mem
          /\ Set(c, NewErr(cells[c], "alloc"))
    /\ Frame

\* let ptr = mem_alloc(len)?;
NewAlloc(c) ==
    /\ AtNew(c, "alloc")
    /\ \/ \E a \in {x \in Addrs : ~mem[x].mapped} :
            /\ mem' = [mem EXCEPT ![a] = mmap]
            /\ Set(c, NewOk([cells[c] EXCEPT !.ptr = a, !.base = a], "alloc"))
       \/ /\ UNCHANGED mem
          /\ Set(c, NewErr(cells[c], "alloc"))
    /\ Frame

\* mem_lock(ptr, len)?;
NewLock(c) ==
    /\ AtNew(c, "lock")
    /\ \E ok \in BOOLEAN :
        /\ mem' = [mem EXCEPT ![cells[c].ptr] = mlock(@, ok)]
        /\ Set(c, IF ok THEN NewOk(cells[c], "lock") ELSE NewErr(cells[c], "lock"))
    /\ Frame

\* #[cfg(target_os = "linux")] mem_no_dump(ptr, len)?;
NewNoDump(c) ==
    /\ AtNew(c, "no_dump")
    /\ \E ok \in BOOLEAN :
        /\ mem' = [mem EXCEPT ![cells[c].ptr] = madvice(@, ok)]
        /\ Set(c, IF ok THEN NewOk(cells[c], "no_dump") ELSE NewErr(cells[c], "no_dump"))
    /\ Frame

\* ptr_write(ptr, value);
NewWrite(c) ==
    /\ AtNew(c, "write")
    /\ IF CanWrite(mem[cells[c].ptr])
       THEN /\ mem' = [mem EXCEPT ![cells[c].ptr] = ptr_write(@, cells[c].donor)]
            /\ Set(c, NewOk(cells[c], "write"))
       ELSE /\ UNCHANGED mem
            /\ Set(c, [cells[c] EXCEPT !.st = "segv", !.pc = 0])
    /\ Frame

\* Mutant: the constructor leaves the bytes of `value` where they were.
NewFillZero_skipped(c) ==
    /\ AtNew(c, "fill_zero")
    /\ Set(c, NewOk(cells[c], "fill_zero"))
    /\ UNCHANGED mem
    /\ Frame

\* ptr_fill_zero(val_ptr);
NewFillZero(c) ==
    /\ AtNew(c, "fill_zero")
    /\ Set(c, NewOk([cells[c] EXCEPT !.donor = ptr_fill_zero(@)], "fill_zero"))
    /\ UNCHANGED mem
    /\ Frame

\* #[cfg(windows)] mem_readonly(ptr, len)?;  #[cfg(unix)] mem_noaccess(ptr, len)?;
NewProtect(c) ==
    /\ AtNew(c, "protect")
    /\ \E ok \in BOOLEAN :
        /\ mem' = [mem EXCEPT ![cells[c].ptr] = mprotect(@, Floor(platform), ok)]
        /\ Set(c, IF ok THEN NewOk(cells[c], "protect") ELSE NewErr(cells[c], "protect"))
    /\ Frame

\* `self` by value and `&mut self` cannot be had while a shared reference to the
\* handle is alive in some thread.
Unshared(c) == cells[c].sharers = {}

\* ---------------------------------------------------------------- Drop
\* Mutant: the guards carry no lifetime, so the cell can be dropped under them.
DropBegin_while_borrowed(c) ==
    /\ c \in 1..ncells
    /\ Quiet
    /\ cells[c].st \in {"live", "unwind"}
    /\ Unshared(c)
    /\ Set(c, [cells[c] EXCEPT !.st = "drop", !.pc = 1,
                               !.unwinding = (cells[c].st = "unwind"),
                               !.op = "drop", !.held = "-", !.asked = "-"])
    /\ UNCHANGED mem
    /\ Frame

\* A cell that no guard borrows goes out of scope (or a panic unwinds its owner).
DropBegin(c) ==
    /\ c \in 1..ncells
    /\ Quiet
    /\ cells[c].st \in {"live", "unwind"}
    /\ cells[c].guards = <<>>
    /\ Unshared(c)
    /\ Set(c, [cells[c] EXCEPT !.st = "drop", !.pc = 1,
                               !.unwinding = (cells[c].st = "unwind"),
                               !.op = "drop", !.held = "-", !.asked = "-"])
    /\ UNCHANGED mem
    /\ Frame

\* .unwrap() on an Err inside drop: the rest of drop does not run.
DropPanic(r, s) ==
    [r EXCEPT !.st = IF r.unwinding THEN "abort" ELSE "panic", !.pc = 0,
              !.res = "Panic", !.primFailed = TRUE, !.dlog = Append(@, s)]

\* The statement after s of drop; past the last one the cell is gone.
DropOk(r, s) ==
    IF r.pc = Len(DropSteps)
    THEN [r EXCEPT !.st = "dropped", !.pc = 0, !.dlog = Append(@, s)]
    ELSE [r EXCEPT !.pc = @ + 1, !.dlog = Append(@, s)]

\* mem_readwrite(self.ptr, size_of::<T>()).unwrap();
DropReadWrite(c) ==
    /\ AtDrop(c, "readwrite")
    /\ \E ok \in BOOLEAN :
        /\ mem' = [mem EXCEPT ![cells[c].ptr] = mprotect(@, "ReadWrite", ok)]
        /\ Set(c, IF ok THEN DropOk(cells[c], "readwrite")
                        ELSE DropPanic(cells[c], "readwrite"))
    /\ Frame

\* ptr_drop_in_place(self.ptr): the destructor of T reads the value.
DropInPlace(c) ==
    /\ AtDrop(c, "drop_in_place")
    /\ IF CanRead(mem[cells[c].ptr])
       THEN Set(c, DropOk([cells[c] EXCEPT !.dtorSaw = ptr_deref(mem[cells[c].ptr])],
                          "drop_in_place"))
       ELSE Set(c, [cells[c] EXCEPT !.st = "segv", !.pc = 0])
    /\ UNCHANGED mem
    /\ Frame

\* Mutant: drop forgets to wipe the region.
DropFillZero_skipped(c) ==
    /\ AtDrop(c, "fill_zero")
    /\ Set(c, DropOk(cells[c], "fill_zero"))
    /\ UNCHANGED mem
    /\ Frame

\* ptr_fill_zero(self.ptr);
DropFillZero(c) ==
    /\ AtDrop(c, "fill_zero")
    /\ IF CanWrite(mem[cells[c].ptr])
       THEN /\ mem' = [mem EXCEPT ![cells[c].ptr].bytes = ptr_fill_zero(@)]
            /\ Set(c, DropOk([cells[c] EXCEPT !.zeroProt = mem[cells[c].ptr].prot],
                             "fill_zero"))
       ELSE /\ UNCHANGED mem
            /\ Set(c, [cells[c] EXCEPT !.st = "segv", !.pc = 0])
    /\ Frame

\* mem_unlock(self.ptr, size_of::<T>()).unwrap();
DropUnlock(c) ==
    /\ AtDrop(c, "unlock")
    /\ \E ok \in BOOLEAN :
        /\ mem' = [mem EXCEPT ![cells[c].ptr] = munlock(@, ok)]
        /\ Set(c, IF ok THEN DropOk(cells[c], "unlock") ELSE DropPanic(cells[c], "unlock"))
    /\ Frame

\* mem_dealloc(self.ptr, size_of::<T>()).unwrap();
DropDealloc(c) ==
    /\ AtDrop(c, "dealloc")
    /\ \E ok \in BOOLEAN :
        /\ mem' = [mem EXCEPT ![cells[c].ptr] = munmap(@, ok)]
        /\ Set(c, IF ok THEN DropOk(cells[c], "dealloc") ELSE DropPanic(cells[c], "dealloc"))
    /\ Frame

\* ---------------------------------------------------------- the guard API
\* Mutant: read() / write() take `&self`, so guards can pile up.
Borrowable_shared(c) == Len(cells[c].guards) < MaxGuards

\* `&mut self`: a guard keeps the exclusive borrow of its cell for its lifetime.
Borrowable(c) == cells[c].guards = <<>>

\* The request an operation on the handle makes of the protect primitive: the
\* operation, the protection the region has when it begins, and the mode it asks
\* for ("-" when it returns without calling the primitive).
Asked(r, name, m, mode) == [r EXCEPT !.op = name, !.held = m.prot, !.asked = mode]

\* Mutant: the result of the protect call is not looked at; the guard is handed out.
AcquireFailed_unchecked(r) ==
    [r EXCEPT !.guards = Append(@, r.op), !.res = "Ok", !.primFailed = TRUE]

\* What a failed mem_readonly / mem_readwrite does to the caller of read() / write():
\* mem_safe.rs returns the error (`?`), gaurd.rs unwraps it.
AcquireFailed(r) ==
    IF api = "mem_safe"
    THEN [r EXCEPT !.res = "Err", !.primFailed = TRUE]
    ELSE [r EXCEPT !.st = "unwind", !.res = "Panic", !.primFailed = TRUE]

\* The guard is handed out.
Acquired(r, kind) == [r EXCEPT !.guards = Append(@, kind), !.res = "Ok"]

\* MemSafe::read(&mut self)
Read(c) ==
    /\ c \in 1..ncells
    /\ api \in GuardApis
    /\ Quiet
    /\ cells[c].st = "live"
    /\ Borrowable(c)
    /\ \E ok \in BOOLEAN :
        /\ mem' = [mem EXCEPT ![cells[c].ptr] = mprotect(@, "ReadOnly", ok)]
        /\ LET r == Asked(cells[c], "read", mem[cells[c].ptr], "ReadOnly")
           IN  Set(c, IF ok THEN Acquired(r, "read") ELSE AcquireFailed(r))
    /\ Frame

\* Mutant: write() asks for the protection read() asks for.
Write_readonly(c) ==
    /\ c \in 1..ncells
    /\ api \in GuardApis
    /\ Quiet
    /\ cells[c].st = "live"
    /\ cells[c].guards = <<>>
    /\ \E ok \in BOOLEAN :
        /\ mem' = [mem EXCEPT ![cells[c].ptr] = mprotect(@, "ReadOnly", ok)]
        /\ LET r == Asked(cells[c], "write", mem[cells[c].ptr], "ReadOnly")
           IN  Set(c, IF ok THEN Acquired(r, "write") ELSE AcquireFailed(r))
    /\ Frame

\* MemSafe::write(&mut self)
Write(c) ==
    /\ c \in 1..ncells
    /\ api \in GuardApis
    /\ Quiet
    /\ cells[c].st = "live"
    /\ Borrowable(c)
    /\ \E ok \in BOOLEAN :
        /\ mem' = [mem EXCEPT ![cells[c].ptr] = mprotect(@, "ReadWrite", ok)]
        /\ LET r == Asked(cells[c], "write", mem[cells[c].ptr], "ReadWrite")
           IN  Set(c, IF ok THEN Acquired(r, "write") ELSE AcquireFailed(r))
    /\ Frame

\* A load through the handle: the bytes read, or an access violation.
Load(c) ==
    IF CanRead(mem[cells[c].ptr])
    THEN [cells[c] EXCEPT !.lastRead = ptr_deref(mem[cells[c].ptr]),
                          !.crossRead = cells[c].moved]
    ELSE [cells[c] EXCEPT !.st = "segv"]

\* A store of v through the handle.
Store(c, v) ==
    /\ IF CanWrite(mem[cells[c].ptr])
       THEN /\ mem' = [mem EXCEPT ![cells[c].ptr] = ptr_write(@, v)]
            /\ Set(c, [cells[c] EXCEPT !.shadow = v, !.stored = TRUE, !.lastRead = <<>>,
                                       !.moved = FALSE, !.crossRead = FALSE])
       ELSE /\ UNCHANGED mem
            /\ Set(c, [cells[c] EXCEPT !.st = "segv"])

\* Deref for MemSafeRead / MemSafeWrite
GuardDeref(c) ==
    /\ c \in 1..ncells
    /\ api \in GuardApis
    /\ cells[c].st = "live"
    /\ cells[c].guards # <<>>
    /\ Set(c, Load(c))
    /\ UNCHANGED mem
    /\ Frame

\* DerefMut for MemSafeWrite
GuardDerefMut(c, v) ==
    /\ c \in 1..ncells
    /\ api \in GuardApis
    /\ cells[c].st = "live"
    /\ \E i \in DOMAIN cells[c].guards : cells[c].guards[i] = "write"
    /\ Store(c, v)
    /\ Frame

\* Mutant: the windows branch of low_priv is taken on every platform.
low_priv_readonly(m, ok) == mprotect(m, "ReadOnly", ok)

\* Cell::low_priv / MemSafePtr::low_priv: the protection a released guard asks for.
low_priv(m, ok) == mprotect(m, Floor(platform), ok)

\* Drop for MemSafeRead / MemSafeWrite: low_priv().unwrap()
GuardDrop(c) ==
    /\ c \in 1..ncells
    /\ api \in GuardApis
    /\ cells[c].st = "live"
    /\ cells[c].guards # <<>>
    /\ \E ok \in BOOLEAN :
        /\ mem' = [mem EXCEPT ![cells[c].ptr] = low_priv(@, ok)]
        /\ LET r == Asked(cells[c], "release", mem[cells[c].ptr], Floor(platform))
           IN  Set(c, IF ok
                      THEN [r EXCEPT !.guards = Tail(@)]
                      ELSE [r EXCEPT !.guards = Tail(@), !.st = "unwind",
                                     !.res = "Panic", !.primFailed = TRUE])
    /\ Frame

\* ----------------------------------------------------- the typed-state API
\* Mutant: the NoAccess state type and its transitions exist on every platform.
HasState_any(p, s) == s \in Prots

\* The states that have a type on the platform: NoAccess is cfg(unix).
HasState(p, s) == s \in Prots /\ (s = "NoAccess" => p # "windows")

\* Mutant: the returned handle keeps the type of the consumed one.
Retyped_stale(r, target) ==
    [r EXCEPT !.ptr = r.ptr, !.res = "Ok", !.op = "transition", !.held = r.tstate,
              !.asked = target]

\* Mutant: the consumed handle is not forgotten and its drop runs on the way out.
Retyped_unforgotten(r, target) ==
    [r EXCEPT !.tstate = target, !.ptr = r.ptr, !.res = "Ok", !.op = "transition",
              !.held = r.tstate, !.asked = target, !.dlog = @ \o DropSteps]

\* The handle a successful transition returns: MemSafe { ptr: self.ptr, _state }.
Retyped(r, target) ==
    [r EXCEPT !.tstate = target, !.ptr = r.ptr, !.res = "Ok", !.op = "transition",
              !.held = r.tstate, !.asked = target]

\* Mutant: the transition borrows the handle, which survives the failure.
TransitionFailed_kept(r, target) ==
    [r EXCEPT !.res = "Err", !.primFailed = TRUE, !.op = "transition",
              !.held = r.tstate, !.asked = target]

\* `?` on a failed transition: the consumed handle is dropped on the way out.
TransitionFailed(r, target) ==
    [r EXCEPT !.st = "drop", !.pc = 1, !.res = "Err", !.primFailed = TRUE,
              !.op = "transition", !.held = r.tstate, !.asked = target]

\* Mutant: the consumed handle is not forgotten, so its drop wipes and releases the
\* region the returned handle points to.
TransitionOk_dropped(c, target) ==
    /\ mem' = [mem EXCEPT ![cells[c].ptr] = Unmapped]
    /\ Set(c, Retyped(cells[c], target))

\* The transition went through: the protection is the target's and, the consumed
\* handle being forgotten (std::mem::forget / the cell moved), only the new one remains.
TransitionOk(c, target) ==
    /\ mem' = [mem EXCEPT ![cells[c].ptr] = mprotect(@, target, TRUE)]
    /\ Set(c, Retyped(cells[c], target))

\* Mutant: the identity transitions make the protect call like the others.
Transition_always_calls(c, target) ==
    /\ c \in 1..ncells
    /\ api \in TypedApis
    /\ Quiet
    /\ cells[c].st = "live"
    /\ Unshared(c)
    /\ HasState(platform, target)
    /\ \/ TransitionOk(c, target)
       \/ /\ mem' = [mem EXCEPT ![cells[c].ptr] = mprotect(@, target, FALSE)]
          /\ Set(c, TransitionFailed(cells[c], target))
    /\ Frame

\* self.<target>(): identity when the type is already the target, else one protect call.
Transition(c, target) ==
    /\ c \in 1..ncells
    /\ api \in TypedApis
    /\ Quiet
    /\ cells[c].st = "live"
    /\ Unshared(c)
    /\ HasState(platform, target)
    /\ IF cells[c].tstate = target
       THEN /\ UNCHANGED mem
            /\ Set(c, [cells[c] EXCEPT !.res = "Ok", !.op = "transition",
                                       !.held = cells[c].tstate, !.asked = "-"])
       ELSE \/ TransitionOk(c, target)
            \/ /\ mem' = [mem EXCEPT ![cells[c].ptr] = mprotect(@, target, FALSE)]
               /\ Set(c, TransitionFailed(cells[c], target))
    /\ Frame

no_access(c) == Transition(c, "NoAccess")
read_only(c) == Transition(c, "ReadOnly")
read_write(c) == Transition(c, "ReadWrite")

\* Mutant: Deref is implemented for every state type, NoAccess included.
TypedDeref_any_state(c) ==
    /\ c \in 1..ncells
    /\ api \in TypedApis
    /\ cells[c].st = "live"
    /\ Set(c, Load(c))
    /\ UNCHANGED mem
    /\ Frame

\* Deref / AsRef for MemSafe<T, ReadOnly> and MemSafe<T, ReadWrite>
TypedDeref(c) ==
    /\ c \in 1..ncells
    /\ api \in TypedApis
    /\ cells[c].st = "live"
    /\ cells[c].tstate \in {"ReadOnly", "ReadWrite"}
    /\ Set(c, Load(c))
    /\ UNCHANGED mem
    /\ Frame

\* DerefMut / AsMut for MemSafe<T, ReadWrite>
TypedDerefMut(c, v) ==
    /\ c \in 1..ncells
    /\ api \in TypedApis
    /\ cells[c].st = "live"
    /\ cells[c].tstate = "ReadWrite"
    /\ Unshared(c)
    /\ Store(c, v)
    /\ Frame

\* ------------------------------------------------------------------ threads
\* unsafe impl Send: mem_safe.rs for MemSafe<T>, lib.rs / type_state.rs for every state
\* type; gaurd.rs has none, and its raw pointer field makes the handle !Send.
Sendable(a) == a \in {"mem_safe", "lib", "type_state"}

\* Mutant: the sending thread keeps a usable copy of the handle.
Moved_copied(r, t) == [r EXCEPT !.holders = @ \cup {t}, !.moved = TRUE]

\* A move of the handle into thread t: the binding it is moved out of is dead.
Moved(r, t) == [r EXCEPT !.holders = {t}, !.moved = TRUE]

\* std::thread::spawn(move || ..) capturing the handle, or the handle coming back as
\* the result of JoinHandle::join.
Move(c, t) ==
    /\ c \in 1..ncells
    /\ Quiet
    /\ Sendable(api)
    /\ cells[c].st = "live"
    /\ cells[c].guards = <<>>
    /\ Unshared(c)
    /\ t \in Threads \ cells[c].holders
    /\ Set(c, Moved(cells[c], t))
    /\ UNCHANGED mem
    /\ Frame

\* Mutant: every state type is Sync.
Sync_any(s) == TRUE

\* unsafe impl Sync for MemSafe<T, NoAccess> and MemSafe<T, ReadOnly> only.
Sync(s) == s \in {"NoAccess", "ReadOnly"}

\* A thread takes a shared reference to the handle (a clone of the Arc around it).
Share(c, t) ==
    /\ c \in 1..ncells
    /\ api \in TypedApis
    /\ Quiet
    /\ cells[c].st = "live"
    /\ Sync(cells[c].tstate)
    /\ t \in Threads \ cells[c].sharers
    /\ Set(c, [cells[c] EXCEPT !.sharers = @ \cup {t}])
    /\ UNCHANGED mem
    /\ Frame

\* A read through a shared reference: Deref for MemSafe<T, ReadOnly>.
SharedDeref(c, t) ==
    /\ c \in 1..ncells
    /\ api \in TypedApis
    /\ cells[c].st = "live"
    /\ t \in cells[c].sharers
    /\ cells[c].tstate \in {"ReadOnly", "ReadWrite"}
    /\ Set(c, [Load(c) EXCEPT !.crossRead = (t \notin cells[c].holders)])
    /\ UNCHANGED mem
    /\ Frame

\* The thread is done with its shared reference.
Unshare(c, t) ==
    /\ c \in 1..ncells
    /\ t \in cells[c].sharers
    /\ Set(c, [cells[c] EXCEPT !.sharers = @ \ {t}])
    /\ UNCHANGED mem
    /\ Frame

Next ==
    \/ \E c \in Cells, v \in Values : New(c, v)
    \/ \E c \in Cells : NewAlloc(c)
    \/ \E c \in Cells : NewLock(c)
    \/ \E c \in Cells : NewNoDump(c)
    \/ \E c \in Cells : NewWrite(c)
    \/ \E c \in Cells : NewFillZero(c)
    \/ \E c \in Cells : NewProtect(c)
    \/ \E c \in Cells : Read(c)
    \/ \E c \in Cells : Write(c)
    \/ \E c \in Cells : GuardDeref(c)
    \/ \E c \in Cells, v \in Values : GuardDerefMut(c, v)
    \/ \E c \in Cells : GuardDrop(c)
    \/ \E c \in Cells : no_access(c)
    \/ \E c \in Cells : read_only(c)
    \/ \E c \in Cells : read_write(c)
    \/ \E c \in Cells : TypedDeref(c)
    \/ \E c \in Cells, v \in Values : TypedDerefMut(c, v)
    \/ \E c \in Cells : DropBegin(c)
    \/ \E c \in Cells : DropReadWrite(c)
    \/ \E c \in Cells : DropInPlace(c)
    \/ \E c \in Cells : DropFillZero(c)
    \/ \E c \in Cells : DropUnlock(c)
    \/ \E c \in Cells : DropDealloc(c)

Spec == Init /\ [][Next]_vars

\* The values the threaded runs store: arrays of one repeated byte.
ThreadValues == {v \in Values : \A i \in 1..SizeOfT : v[i] = v[1]}

\* The program with its handles moved between, and shared among, threads.
NextThreads ==
    \/ \E c \in Cells, v \in ThreadValues : New(c, v)
    \/ \E c \in Cells : NewAlloc(c)
    \/ \E c \in Cells : NewLock(c)
    \/ \E c \in Cells : NewNoDump(c)
    \/ \E c \in Cells : NewWrite(c)
    \/ \E c \in Cells : NewFillZero(c)
    \/ \E c \in Cells : NewProtect(c)
    \/ \E c \in Cells : Read(c)
    \/ \E c \in Cells : Write(c)
    \/ \E c \in Cells : GuardDeref(c)
    \/ \E c \in Cells, v \in ThreadValues : GuardDerefMut(c, v)
    \/ \E c \in Cells : GuardDrop(c)
    \/ \E c \in Cells : no_access(c)
    \/ \E c \in Cells : read_only(c)
    \/ \E c \in Cells : read_write(c)
    \/ \E c \in Cells : TypedDeref(c)
    \/ \E c \in Cells, v \in ThreadValues : TypedDerefMut(c, v)
    \/ \E c \in Cells, t \in Threads : Move(c, t)
    \/ \E c \in Cells, t \in Threads : Share(c, t)
    \/ \E c \in Cells, t \in Threads : SharedDeref(c, t)
    \/ \E c \in Cells, t \in Threads : Unshare(c, t)
    \/ \E c \in Cells : DropBegin(c)
    \/ \E c \in Cells : DropReadWrite(c)
    \/ \E c \in Cells : DropInPlace(c)
    \/ \E c \in Cells : DropFillZero(c)
    \/ \E c \in Cells : DropUnlock(c)
    \/ \E c \in Cells : DropDealloc(c)

SpecThreads == Init /\ [][NextThreads]_vars

\* One statement of the drop of cell c: each is a synchronous call that returns.
DropStep(c) ==
    \/ DropReadWrite(c)
    \/ DropInPlace(c)
    \/ DropFillZero(c)
    \/ DropUnlock(c)
    \/ DropDealloc(c)

\* The threaded program with the progress the language gives: a drop that has begun
\* runs its next statement, and an unwinding owner drops what it owns.
SpecLive ==
    /\ Init
    /\ [][NextThreads]_vars
    /\ \A c \in Cells : WF_vars(DropStep(c))
    /\ \A c \in Cells : WF_vars(cells[c].st = "unwind" /\ DropBegin(c))

\* ------------------------------------------------------------- two cells
\* The front ends of the two-cell program: the guard API over Cell (mem_safe.rs) and
\* the typed-state API tests/memory_tests.rs uses (lib.rs).
CellApis == {"mem_safe", "lib"}

\* The value the two-cell program stores: every byte non-zero.
CellValues == {[i \in 1..SizeOfT |-> MaxByte]}

\* A program with two cells, built for linux, run by one thread: a call on one cell
\* starts only when no constructor or drop is in the middle of its statements.
InitCells ==
    /\ platform = "linux"
    /\ api \in CellApis
    /\ ncells = 2
    /\ mem = [a \in Addrs |-> Unmapped]
    /\ cells = [c \in Cells |-> NoCell]

NextCells ==
    \/ \E c \in Cells, v \in CellValues : New(c, v)
    \/ \E c \in Cells : NewAlloc(c)
    \/ \E c \in Cells : NewLock(c)
    \/ \E c \in Cells : NewNoDump(c)
    \/ \E c \in Cells : NewWrite(c)
    \/ \E c \in Cells : NewFillZero(c)
    \/ \E c \in Cells : NewProtect(c)
    \/ \E c \in Cells : Quiet /\ Read(c)
    \/ \E c \in Cells : Quiet /\ Write(c)
    \/ \E c \in Cells : Quiet /\ GuardDeref(c)
    \/ \E c \in Cells, v \in CellValues : Quiet /\ GuardDerefMut(c, v)
    \/ \E c \in Cells : Quiet /\ GuardDrop(c)
    \/ \E c \in Cells : Quiet /\ no_access(c)
    \/ \E c \in Cells : Quiet /\ read_only(c)
    \/ \E c \in Cells : Quiet /\ read_write(c)
    \/ \E c \in Cells : Quiet /\ TypedDeref(c)
    \/ \E c \in Cells, v \in CellValues : Quiet /\ TypedDerefMut(c, v)
    \/ \E c \in Cells : DropBegin(c)
    \/ \E c \in Cells : DropReadWrite(c)
    \/ \E c \in Cells : DropInPlace(c)
    \/ \E c \in Cells : DropFillZero(c)
    \/ \E c \in Cells : DropUnlock(c)
    \/ \E c \in Cells : DropDealloc(c)

SpecCells == InitCells /\ [][NextCells]_vars

\* ====================================================================== claims
Range(q) == {q[i] : i \in DOMAIN q}
IsPrefix(p, q) == Len(p) <= Len(q) /\ \A i \in DOMAIN p : p[i] = q[i]
Ended(c) == cells[c].st \in {"dropped", "panic", "abort", "segv"}

\* C1: when deallocate is about to be invoked on the allocation of a cell that is
\* being destroyed, every one of its backing bytes is zero.
C1_ZeroOnDestroy ==
    \A c \in Cells :
        AtDrop(c, "dealloc") =>
            /\ mem[cells[c].ptr].mapped
            /\ \A i \in 1..SizeOfT : mem[cells[c].ptr].bytes[i] = 0

\* C1 witness: a typed-state cell that held a non-zero value stands at deallocate.
C1_Witness ==
    \E c \in Cells :
        /\ AtDrop(c, "dealloc")
        /\ api \in TypedApis
        /\ cells[c].shadow # Zeroes
        /\ cells[c].dtorSaw = cells[c].shadow

\* C2: the steps of every destruction occur in the order protect(ReadWrite), value
\* destructor, zero fill, unlock, deallocate: the destructor sees the value that was
\* stored (it runs before the wipe), the wipe happens while the protection is
\* ReadWrite, and a completed destruction ends with unlock then deallocate.
C2_DestroyOrder ==
    \A c \in Cells :
        /\ IsPrefix(cells[c].dlog,
                    <<"readwrite", "drop_in_place", "fill_zero", "unlock", "dealloc">>)
        /\ cells[c].dtorSaw # <<>> => cells[c].dtorSaw = cells[c].shadow
        /\ cells[c].zeroProt \in {"-", "ReadWrite"}
        /\ cells[c].st = "dropped" =>
              /\ Len(cells[c].dlog) = 5
              /\ cells[c].dlog[4] = "unlock"
              /\ cells[c].dlog[5] = "dealloc"

\* C2 witness: a destruction that ran to its end over a non-zero value.
C2_Witness ==
    \E c \in Cells :
        /\ cells[c].st = "dropped"
        /\ cells[c].dtorSaw # Zeroes
        /\ cells[c].dtorSaw # <<>>
        /\ cells[c].zeroProt = "ReadWrite"

\* C3: the zero step is never skipped: a destruction that has begun and is over has
\* run the zero fill, also when its first protect(ReadWrite) call failed.
C3_ZeroNeverSkipped ==
    \A c \in Cells :
        (cells[c].dlog # <<>> /\ Ended(c)) => "fill_zero" \in Range(cells[c].dlog)

\* C4: when construct returns an error after allocate succeeded, the allocation is
\* neither locked nor still mapped.
C4_NoLeakOnFailedNew ==
    \A c \in Cells :
        (cells[c].st = "err" /\ cells[c].base # 0) =>
            /\ ~mem[cells[c].base].mapped
            /\ ~mem[cells[c].base].locked

\* C5: whenever a cell of the guard API is live and no guard is outstanding, the
\* protection of its allocation is the floor of the platform: NoAccess where the
\* platform has it, ReadOnly on windows.
C5_LeastPrivilege ==
    \A c \in Cells :
        (api \in GuardApis /\ cells[c].st = "live" /\ cells[c].guards = <<>>) =>
            /\ mem[cells[c].ptr].mapped
            /\ mem[cells[c].ptr].prot =
                  (IF platform = "windows" THEN "ReadOnly" ELSE "NoAccess")

\* C5 witness: a live cell on a NoAccess-floor platform after a write guard and a
\* read guard were released.
C5_Witness ==
    \E c \in Cells :
        /\ api \in GuardApis
        /\ platform # "windows"
        /\ cells[c].st = "live"
        /\ cells[c].guards = <<>>
        /\ cells[c].stored
        /\ cells[c].shadow # Zeroes
        /\ cells[c].lastRead = cells[c].shadow

C7_GuardRoundTrip ==
    \A c \in Cells :
        api \in GuardApis =>
            /\ cells[c].lastRead # <<>> => cells[c].lastRead = cells[c].shadow
            /\ (\/ cells[c].st \in {"err", "panic", "abort", "segv", "unwind"}
                \/ cells[c].res \in {"Err", "Panic"}) => cells[c].primFailed

\* C7 witness: on the ReadOnly-floor platform construct, write x, release, read x,
\* release, destroy ran to the end with every primitive call succeeding.
C7_Witness ==
    \E c \in Cells :
        /\ api \in GuardApis
        /\ platform = "windows"
        /\ cells[c].st = "dropped"
        /\ ~cells[c].primFailed
        /\ cells[c].stored
        /\ cells[c].shadow # Zeroes
        /\ cells[c].lastRead = cells[c].shadow

\* C8: a typed-state handle always refers to the allocation construct made, which
\* stays mapped and holds the value last stored, whatever chain of successful
\* transitions led to the handle; what is read through it is that value.
C8_TransitionsPreserve ==
    \A c \in Cells :
        (api \in TypedApis /\ cells[c].st = "live") =>
            /\ cells[c].ptr = cells[c].base
            /\ mem[cells[c].ptr].mapped
            /\ mem[cells[c].ptr].bytes = cells[c].shadow
            /\ cells[c].lastRead # <<>> => cells[c].lastRead = cells[c].shadow

\* C8 witness: a value written in ReadWrite was read back after the handle became
\* ReadOnly.
C8_Witness ==
    \E c \in Cells :
        /\ api \in TypedApis
        /\ cells[c].st = "live"
        /\ cells[c].tstate = "ReadOnly"
        /\ cells[c].stored
        /\ cells[c].shadow # Zeroes
        /\ cells[c].lastRead = cells[c].shadow

\* C9: at most one guard is outstanding per cell, and while one is, neither read()
\* nor write() can begin on that cell.
C9_GuardExclusive ==
    \A c \in Cells :
        /\ Len(cells[c].guards) <= 1
        /\ cells[c].guards # <<>> => (~ENABLED Read(c) /\ ~ENABLED Write(c))

\* C9 witness: a write guard is outstanding.
C9_Witness ==
    \E c \in Cells : cells[c].st = "live" /\ cells[c].guards = <<"write">>

\* C10: no handle access faults: whenever a handle that can be read through exists
\* the protection is ReadOnly or ReadWrite, whenever one that can be written through
\* exists it is ReadWrite, and no access violation is ever reached.
C10_AccessPermitted ==
    \A c \in Cells :
        /\ cells[c].st # "segv"
        /\ cells[c].st = "live" =>
              /\ (cells[c].guards # <<>> \/ cells[c].tstate \in {"ReadOnly", "ReadWrite"})
                    => mem[cells[c].ptr].prot \in {"ReadOnly", "ReadWrite"}
              /\ ("write" \in Range(cells[c].guards) \/ cells[c].tstate = "ReadWrite")
                    => mem[cells[c].ptr].prot = "ReadWrite"

\* C10 witness: a value was stored through a handle and read back through one.
C10_Witness ==
    \E c \in Cells :
        /\ cells[c].st = "live"
        /\ cells[c].stored
        /\ cells[c].shadow # Zeroes
        /\ cells[c].lastRead = cells[c].shadow
        /\ mem[cells[c].ptr].prot = "ReadOnly"

\* C11: whenever a typed-state handle exists, after construct and after any sequence
\* of successful or failed transitions, the state its type encodes is the actual
\* protection of its allocation; a failed transition leaves no handle behind.
C11_NoDrift ==
    \A c \in Cells :
        (api \in TypedApis /\ cells[c].st = "live") =>
            /\ cells[c].tstate \in Prots
            /\ mem[cells[c].ptr].mapped
            /\ mem[cells[c].ptr].prot = cells[c].tstate

\* C11 witness: a handle that went to ReadWrite, took a store, and is ReadWrite.
C11_Witness ==
    \E c \in Cells :
        /\ api \in TypedApis
        /\ cells[c].st = "live"
        /\ cells[c].tstate = "ReadWrite"
        /\ cells[c].stored
        /\ mem[cells[c].ptr].prot = "ReadWrite"

\* C12: a cell-level transition whose target is the protection the region already
\* has (read() on a cell at the ReadOnly floor, the release of a read guard there)
\* returns without invoking the protect primitive, and so cannot fail.
C12_IdempotentNoCall ==
    \A c \in Cells :
        (cells[c].op \in {"read", "write", "release"} /\ cells[c].asked # "-") =>
            cells[c].asked # cells[c].held

\* C13: the typed-state transition graph.  Construct returns the floor-state type;
\* from every state the transition to each state of the platform (the identity
\* included) is available and can succeed in one step, and a transition to NoAccess
\* is available only where the platform has that state; a successful state-changing
\* transition has issued one protect call, for the target mode, and an identity
\* transition none.
C13_TransitionGraph ==
    \A c \in Cells :
        (api \in TypedApis /\ cells[c].st = "live" /\ Quiet) =>
            /\ cells[c].tstate \in Prots
            /\ platform = "windows" => cells[c].tstate # "NoAccess"
            /\ cells[c].op = "-" =>
                  cells[c].tstate = (IF platform = "windows" THEN "ReadOnly" ELSE "NoAccess")
            /\ \A t \in Prots :
                  (ENABLED (/\ Transition(c, t)
                            /\ cells'[c].st = "live"
                            /\ cells'[c].tstate = t
                            /\ mem'[cells'[c].ptr].prot = t))
                    <=> (t = "NoAccess" => platform # "windows")
            /\ cells[c].op = "transition" =>
                  cells[c].asked = (IF cells[c].held = cells[c].tstate
                                    THEN "-" ELSE cells[c].tstate)

\* C13 witness: a handle that was ReadWrite has become NoAccess by one protect call.
C13_Witness ==
    \E c \in Cells :
        /\ api \in TypedApis
        /\ cells[c].st = "live"
        /\ cells[c].op = "transition"
        /\ cells[c].held = "ReadWrite"
        /\ cells[c].tstate = "NoAccess"
        /\ cells[c].asked = "NoAccess"
        /\ cells[c].stored

\* C14: on the ReadOnly-floor platform configuration no allocation of a cell is ever
\* protected NoAccess: construct, guard release and every transition only ever set
\* ReadOnly or ReadWrite there.
C14_NoAccessNeverEntered ==
    platform = "windows" =>
        /\ \A a \in Addrs : mem[a].mapped => mem[a].prot \in {"ReadOnly", "ReadWrite"}
        /\ \A c \in Cells :
              /\ cells[c].asked # "NoAccess"
              /\ cells[c].tstate # "NoAccess"

\* C14 witness: on that configuration a guard was released after a store, and the
\* release asked for ReadOnly.
C14_Witness ==
    \E c \in Cells :
        /\ platform = "windows"
        /\ cells[c].st = "live"
        /\ cells[c].op = "release"
        /\ cells[c].held = "ReadWrite"
        /\ cells[c].asked = "ReadOnly"
        /\ mem[cells[c].ptr].prot = "ReadOnly"

\* C15: whenever a read guard is outstanding the protection of its cell is ReadOnly,
\* whenever a write guard is outstanding it is ReadWrite, and a guard exists only
\* after the protect call of its read() / write() succeeded.
C15_GuardProtection ==
    \A c \in Cells :
        cells[c].guards # <<>> =>
            /\ cells[c].st = "live"
            /\ mem[cells[c].ptr].mapped
            /\ \A i \in DOMAIN cells[c].guards :
                  /\ cells[c].guards[i] = "read" => mem[cells[c].ptr].prot = "ReadOnly"
                  /\ cells[c].guards[i] = "write" => mem[cells[c].ptr].prot = "ReadWrite"
            /\ cells[c].op \in {"read", "write"}
            /\ cells[c].res = "Ok"
            /\ cells[c].asked = mem[cells[c].ptr].prot

\* C15 witness: a read guard is outstanding on a NoAccess-floor platform and the
\* value stored earlier has been read through it.
C15_Witness ==
    \E c \in Cells :
        /\ platform # "windows"
        /\ cells[c].guards = <<"read">>
        /\ cells[c].held = "NoAccess"
        /\ cells[c].stored
        /\ cells[c].lastRead = cells[c].shadow
        /\ mem[cells[c].ptr].prot = "ReadOnly"

\* C16: when a handle is moved from one thread to another, and possibly back, at
\* every instant at most one thread holds it (and so can read, write, transition or
\* destroy it), and what the receiving thread reads is exactly the value the sending
\* thread stored before the move.
C16_ThreadHandOff ==
    \A c \in Cells :
        /\ Cardinality(cells[c].holders) <= 1
        /\ cells[c].st \in {"live", "unwind", "drop"} => Cardinality(cells[c].holders) = 1
        /\ cells[c].guards # <<>> => \A t \in Threads : ~ENABLED Move(c, t)
        /\ (cells[c].crossRead /\ cells[c].lastRead # <<>>) =>
              cells[c].lastRead = cells[c].shadow
        /\ (cells[c].moved /\ cells[c].st = "live") =>
              mem[cells[c].ptr].bytes = cells[c].shadow

\* C16 witness: a thread other than the main thread holds a handle the main thread
\* constructed over a non-zero value, nothing was stored since, and that thread has
\* read the value.
C16_Witness ==
    \E c \in Cells :
        /\ cells[c].st = "live"
        /\ cells[c].holders # {MainThread}
        /\ cells[c].moved
        /\ cells[c].crossRead
        /\ ~cells[c].stored
        /\ cells[c].shadow # Zeroes
        /\ cells[c].lastRead = cells[c].shadow

\* C17: while a typed-state handle is shared by reference among threads it is of a
\* Sync state type (never ReadWrite), the protection of its region is that state,
\* every read through it yields the value stored before it was shared, no thread can
\* store through it, change its protection or destroy it; its destruction can begin
\* once no sharer is left, and runs at most once, in order, and only then.
C17_SharedReadOnly ==
    \A c \in Cells :
        /\ cells[c].sharers # {} =>
              /\ api \in TypedApis
              /\ cells[c].st = "live"
              /\ cells[c].tstate \in {"NoAccess", "ReadOnly"}
              /\ mem[cells[c].ptr].prot = cells[c].tstate
              /\ mem[cells[c].ptr].bytes = cells[c].shadow
              /\ cells[c].lastRead # <<>> => cells[c].lastRead = cells[c].shadow
              /\ \A v \in Values : ~ENABLED TypedDerefMut(c, v)
              /\ \A t \in Prots : ~ENABLED Transition(c, t)
              /\ ~ENABLED DropBegin(c)
        /\ (api \in TypedApis /\ cells[c].st = "live" /\ cells[c].sharers = {} /\ Quiet) =>
              ENABLED DropBegin(c)
        /\ (cells[c].st = "live" /\ cells[c].tstate = "ReadWrite") =>
              \A t \in Threads : ~ENABLED Share(c, t)
        /\ cells[c].dlog # <<>> =>
              /\ cells[c].sharers = {}
              /\ IsPrefix(cells[c].dlog,
                          <<"readwrite", "drop_in_place", "fill_zero", "unlock", "dealloc">>)

\* C17 witness: every thread shares a ReadOnly handle, and a thread that does not
\* hold it has read the non-zero value stored while it was ReadWrite.
C17_Witness ==
    \E c \in Cells :
        /\ cells[c].sharers = Threads
        /\ cells[c].tstate = "ReadOnly"
        /\ cells[c].crossRead
        /\ ~cells[c].moved
        /\ cells[c].stored
        /\ cells[c].shadow # Zeroes
        /\ cells[c].lastRead = cells[c].shadow

\* C18: when the protect primitive fails inside read() or write(), the call returns
\* an error, no guard exists, the protection is what it was before the call, and the
\* cell can still be read, written and destroyed.
C18_AcquireFailureReturned ==
    \A c \in Cells :
        (cells[c].op \in {"read", "write"} /\ cells[c].res # "Ok") =>
            /\ cells[c].res = "Err"
            /\ cells[c].st = "live"
            /\ cells[c].guards = <<>>
            /\ mem[cells[c].ptr].prot = cells[c].held
            /\ Quiet => (ENABLED Read(c) /\ ENABLED Write(c) /\ ENABLED DropBegin(c))

\* C19: a failure of the protect primitive while a released guard lowers the cell to
\* the floor is reported as an error: the release does not panic, and the cell lives
\* on.
C19_ReleaseFailureReported ==
    \A c \in Cells :
        cells[c].op = "release" =>
            /\ cells[c].res # "Panic"
            /\ cells[c].st = "live"

\* C20: on every exit path, once the owning scope of a value has ended (normal drop,
\* an early return after a failed read() / write(), a failed transition, a construct
\* that failed), no allocation stays mapped while locked or holding non-zero bytes:
\* an allocation in that condition belongs to a cell whose scope has not ended.
C20_NoSecretLeftBehind ==
    \A a \in Addrs :
        (mem[a].mapped /\ (mem[a].locked \/ mem[a].bytes # Zeroes)) =>
            \E c \in Cells :
                /\ cells[c].ptr = a
                /\ cells[c].st \in {"new", "live", "unwind", "drop"}

\* C21: once the owner of a constructed cell has stopped using it (its drop has
\* begun, or a panic unwinds the owner), the cell is eventually destroyed -- its
\* region wiped, unlocked and deallocated -- unless a primitive call of the
\* destruction failed; and no statement of construct or drop runs a second time.
C21_EventualDestruction ==
    /\ \A c \in Cells :
          (cells[c].st \in {"drop", "unwind"}) ~>
              (cells[c].st = "dropped" \/ cells[c].st \in {"panic", "abort"})
    /\ [](\A c \in Cells :
            /\ cells[c].st = "dropped" =>
                  /\ "fill_zero" \in Range(cells[c].dlog)
                  /\ ~mem[cells[c].base].mapped
                  /\ ~mem[cells[c].base].locked
            /\ \A i, j \in DOMAIN cells[c].dlog :
                  cells[c].dlog[i] = cells[c].dlog[j] => i = j
            /\ \A i, j \in DOMAIN cells[c].nlog :
                  cells[c].nlog[i] = cells[c].nlog[j] => i = j)

\* C21 witness: a cell that was stored to, handed to another thread and read there
\* has been destroyed with every primitive call succeeding.
C21_Witness ==
    \E c \in Cells :
        /\ cells[c].st = "dropped"
        /\ ~cells[c].primFailed
        /\ cells[c].stored
        /\ cells[c].moved
        /\ cells[c].crossRead
        /\ cells[c].dtorSaw # Zeroes

\* C22: a guard never outlives its cell: while a guard is outstanding the cell is
\* live and its destruction cannot begin, and once deallocate has been invoked on
\* the allocation of a cell no guard on it exists and no read, store, guard
\* operation, transition or further destruction of that cell can happen.
C22_NoUseAfterRelease ==
    \A c \in Cells :
        /\ cells[c].guards # <<>> =>
              /\ cells[c].st = "live"
              /\ mem[cells[c].ptr].mapped
              /\ ~ENABLED DropBegin(c)
        /\ "dealloc" \in Range(cells[c].dlog) =>
              /\ cells[c].guards = <<>>
              /\ cells[c].st \in {"dropped", "panic", "abort"}
              /\ ~ENABLED Read(c)
              /\ ~ENABLED Write(c)
              /\ ~ENABLED GuardDeref(c)
              /\ \A v \in Values : ~ENABLED GuardDerefMut(c, v)
              /\ ~ENABLED GuardDrop(c)
              /\ \A t \in Prots : ~ENABLED Transition(c, t)
              /\ ~ENABLED TypedDeref(c)
              /\ \A v \in Values : ~ENABLED TypedDerefMut(c, v)
              /\ ~ENABLED DropBegin(c)
              /\ ~ENABLED DropStep(c)

\* C22 witness: on a NoAccess-floor platform a cell that was written and read
\* through guards has been deallocated.
C22_Witness ==
    \E c \in Cells :
        /\ api \in GuardApis
        /\ platform # "windows"
        /\ "dealloc" \in Range(cells[c].dlog)
        /\ ~mem[cells[c].base].mapped
        /\ cells[c].stored
        /\ cells[c].lastRead = cells[c].shadow

\* C23: every remaining step of a destruction is attempted after a failure: a
\* destruction that is over and invoked unlock has also invoked deallocate, and
\* deallocate is only ever invoked after all four earlier steps.
C23_DestroyStepsAllAttempted ==
    \A c \in Cells :
        /\ (Ended(c) /\ "unlock" \in Range(cells[c].dlog)) =>
              "dealloc" \in Range(cells[c].dlog)
        /\ "dealloc" \in Range(cells[c].dlog) => Len(cells[c].dlog) = 5

\* C24: construct fails fast.  When it has returned an error, the calls it made are
\* the construction steps up to the failing one and no later one, the failing call
\* is allocate, lock, dump exclusion or the final protect and has had no effect, and
\* no cell exists; and the value is in the region only if allocate, lock and (where
\* the platform has it) dump exclusion succeeded before.
C24_ConstructFailsFast ==
    \A c \in Cells :
        /\ cells[c].st = "err" =>
              LET n == Len(cells[c].nlog)
                  failed == cells[c].nlog[n]
              IN  /\ n >= 1
                  /\ IsPrefix(cells[c].nlog, NewSteps(platform))
                  /\ failed \in {"alloc", "lock", "no_dump", "protect"}
                  /\ cells[c].res = "Err"
                  /\ failed = "alloc" => cells[c].base = 0
                  /\ failed = "lock" => ~mem[cells[c].base].locked
                  /\ failed = "no_dump" => ~mem[cells[c].base].nodump
                  /\ failed = "protect" => mem[cells[c].base].prot = "ReadWrite"
                  /\ failed # "protect" =>
                        /\ cells[c].donor = cells[c].shadow
                        /\ cells[c].base # 0 => mem[cells[c].base].bytes = Zeroes
                  /\ cells[c].guards = <<>>
                  /\ ~ENABLED Read(c)
                  /\ ~ENABLED Write(c)
                  /\ \A t \in Prots : ~ENABLED Transition(c, t)
                  /\ ~ENABLED TypedDeref(c)
                  /\ ~ENABLED DropBegin(c)
        /\ (cells[c].st \in {"new", "err", "live"} /\ "write" \in Range(cells[c].nlog)) =>
              /\ mem[cells[c].base].mapped
              /\ mem[cells[c].base].locked
              /\ platform = "linux" => mem[cells[c].base].nodump

\* C24 witness: construct of a non-zero value has returned the error of the dump
\* exclusion call; the value was not moved.
C24_Witness ==
    \E c \in Cells :
        /\ cells[c].st = "err"
        /\ cells[c].nlog = <<"alloc", "lock", "no_dump">>
        /\ cells[c].donor # Zeroes
        /\ mem[cells[c].base].bytes = Zeroes
        /\ mem[cells[c].base].locked

\* C25: construction ordering.  The steps of a construct occur in the order
\* allocate, lock, dump exclusion (where the platform has it), move the value into
\* the region, zero the donor, protect to the floor; when the value is about to be
\* written the region is locked and ReadWrite; and no region holds non-zero bytes
\* while it is not locked.
C25_ConstructOrder ==
    /\ \A c \in Cells :
          LET order == IF platform = "linux"
                       THEN <<"alloc", "lock", "no_dump", "write", "fill_zero", "protect">>
                       ELSE <<"alloc", "lock", "write", "fill_zero", "protect">>
          IN  /\ IsPrefix(cells[c].nlog, order)
              /\ cells[c].st \in {"live", "unwind", "drop", "dropped"} =>
                    cells[c].nlog = order
              /\ AtNew(c, "write") =>
                    /\ mem[cells[c].ptr].locked
                    /\ mem[cells[c].ptr].prot = "ReadWrite"
              /\ cells[c].st # "segv"
    /\ \A a \in Addrs :
          (mem[a].mapped /\ mem[a].bytes # Zeroes) => mem[a].locked

\* C25 witness: a construct on the platform with dump exclusion has run all six
\* steps over a non-zero value.
C25_Witness ==
    \E c \in Cells :
        /\ platform = "linux"
        /\ cells[c].st = "live"
        /\ Len(cells[c].nlog) = 6
        /\ cells[c].op = "-"
        /\ mem[cells[c].ptr].bytes # Zeroes
        /\ mem[cells[c].ptr].nodump
        /\ mem[cells[c].ptr].prot = "NoAccess"

\* C26: exactly-once release with the typed-state API.  While a handle exists no
\* step of the destroy sequence has run on its allocation, whatever transitions
\* produced the handle; every destroy step is invoked at most once per allocation;
\* and a completed destruction has invoked the destructor of the value, unlock and
\* deallocate exactly once each.
C26_ExactlyOnceRelease ==
    \A c \in Cells :
        api \in TypedApis =>
            LET count(s) == Cardinality({i \in DOMAIN cells[c].dlog : cells[c].dlog[i] = s})
            IN  /\ cells[c].st = "live" =>
                      /\ cells[c].dlog = <<>>
                      /\ mem[cells[c].ptr].mapped
                      /\ mem[cells[c].ptr].locked
                /\ \A s \in {"readwrite", "drop_in_place", "fill_zero", "unlock", "dealloc"} :
                      count(s) <= 1
                /\ cells[c].st = "dropped" =>
                      /\ count("drop_in_place") = 1
                      /\ count("unlock") = 1
                      /\ count("dealloc") = 1

\* C26 witness: a handle that went NoAccess -> ReadWrite -> NoAccess, with a store
\* in between, has been dropped.
C26_Witness ==
    \E c \in Cells :
        /\ api \in TypedApis
        /\ cells[c].st = "dropped"
        /\ cells[c].tstate = "NoAccess"
        /\ cells[c].stored
        /\ cells[c].dtorSaw = cells[c].shadow
        /\ ~mem[cells[c].base].mapped

\* C27: when the protect call of a state-changing typed-state transition fails, the
\* caller gets an error, no handle exists afterwards (none of the target state, and
\* none to retry on), the protection is still that of the consumed handle's state
\* until its destruction changes it, and the cell of the consumed handle is in its
\* destroy sequence, which runs at most once and can take its next step.
C27_FailedTransition ==
    \A c \in Cells :
        (cells[c].op = "transition" /\ cells[c].res # "Ok") =>
            /\ cells[c].st \in {"drop", "dropped", "panic", "abort"}
            /\ cells[c].primFailed
            /\ cells[c].asked \in Prots
            /\ cells[c].asked # cells[c].held
            /\ cells[c].tstate = cells[c].held
            /\ cells[c].dlog = <<>> => mem[cells[c].ptr].prot = cells[c].held
            /\ \A t \in Prots : ~ENABLED Transition(c, t)
            /\ ~ENABLED TypedDeref(c)
            /\ \A v \in Values : ~ENABLED TypedDerefMut(c, v)
            /\ IsPrefix(cells[c].dlog,
                        <<"readwrite", "drop_in_place", "fill_zero", "unlock", "dealloc">>)
            /\ cells[c].st = "drop" => ENABLED DropStep(c)
            /\ cells[c].st = "dropped" => Len(cells[c].dlog) = 5

\* C27 witness: read_write() on a ReadOnly handle failed, and the cell of that
\* handle, holding a non-zero value, has been destroyed.
C27_Witness ==
    \E c \in Cells :
        /\ cells[c].op = "transition"
        /\ cells[c].res = "Err"
        /\ cells[c].held = "ReadOnly"
        /\ cells[c].asked = "ReadWrite"
        /\ cells[c].st = "dropped"
        /\ cells[c].dtorSaw # Zeroes
        /\ cells[c].dtorSaw = cells[c].shadow

\* C28: the identity transitions (no_access on NoAccess, read_only on ReadOnly,
\* read_write on ReadWrite) are always available to the holder of a handle, cannot
\* fail, call no primitive, and change neither the memory nor anything of the handle
\* and its cell; after one, another changes nothing at all.
C28_IdentityTransition ==
    \A c \in Cells :
        (api \in TypedApis /\ cells[c].st = "live" /\ Quiet /\ Unshared(c)) =>
            /\ ENABLED Transition(c, cells[c].tstate)
            /\ ~ENABLED (/\ Transition(c, cells[c].tstate)
                         /\ ~(/\ mem' = mem
                              /\ cells'[c].res = "Ok"
                              /\ cells'[c].asked = "-"
                              /\ cells'[c].held = cells[c].tstate
                              /\ [cells'[c] EXCEPT !.res = cells[c].res,
                                                   !.op = cells[c].op,
                                                   !.held = cells[c].held,
                                                   !.asked = cells[c].asked] = cells[c]))
            /\ (cells[c].op = "transition" /\ cells[c].asked = "-") =>
                  ~ENABLED (Transition(c, cells[c].tstate) /\ cells' # cells)

\* C28 witness: read_write() was applied to a ReadWrite handle holding a non-zero
\* value that was stored through it.
C28_Witness ==
    \E c \in Cells :
        /\ api \in TypedApis
        /\ cells[c].st = "live"
        /\ cells[c].op = "transition"
        /\ cells[c].asked = "-"
        /\ cells[c].held = "ReadWrite"
        /\ cells[c].tstate = "ReadWrite"
        /\ cells[c].stored
        /\ cells[c].shadow # Zeroes
        /\ mem[cells[c].ptr].bytes = cells[c].shadow
        /\ mem[cells[c].ptr].prot = "ReadWrite"

\* C29: lock and unlock preconditions.  When construct is about to invoke lock the
\* region is mapped, not yet locked and ReadWrite; lock is invoked at most once per
\* cell and exactly once for every cell that was returned; when drop is about to
\* invoke unlock the region is mapped and locked; unlock is invoked at most once,
\* and only by the destruction of a cell whose construct locked its region.
C29_LockPreconditions ==
    \A c \in Cells :
        LET locks == {i \in DOMAIN cells[c].nlog : cells[c].nlog[i] = "lock"}
            unlocks == {i \in DOMAIN cells[c].dlog : cells[c].dlog[i] = "unlock"}
        IN  /\ AtNew(c, "lock") =>
                  /\ mem[cells[c].ptr].mapped
                  /\ ~mem[cells[c].ptr].locked
                  /\ mem[cells[c].ptr].prot = "ReadWrite"
            /\ Cardinality(locks) <= 1
            /\ cells[c].st \in {"live", "unwind", "drop", "dropped"} => Cardinality(locks) = 1
            /\ AtDrop(c, "unlock") =>
                  /\ mem[cells[c].ptr].mapped
                  /\ mem[cells[c].ptr].locked
            /\ Cardinality(unlocks) <= 1
            /\ unlocks # {} =>
                  /\ cells[c].st \in {"drop", "dropped", "panic", "abort"}
                  /\ Cardinality(locks) = 1
                  /\ cells[c].res # "-"

\* C29 witness: the drop of a cell whose region was locked by construct and held a
\* non-zero value is about to invoke unlock.
C29_Witness ==
    \E c \in Cells :
        /\ AtDrop(c, "unlock")
        /\ mem[cells[c].ptr].locked
        /\ cells[c].dtorSaw # Zeroes
        /\ cells[c].dtorSaw # <<>>
        /\ mem[cells[c].ptr].bytes = Zeroes

\* Cell c has an allocation of its own: mem_alloc returned it and mem_dealloc has not
\* given it back.
Owns(c) == c \in 1..ncells /\ cells[c].ptr # 0 /\ cells[c].st # "dropped"

\* C30: cells are independent. Two cells that have an allocation never have the same
\* one, and the allocation of a cell is mapped. A step changes at most one cell, and
\* leaves alone the region (protection, lock, bytes) of every cell it does not change:
\* a guard acquire or release, a write through a handle, a transition and every
\* statement of a drop of one cell leave the other cell's handle, liveness, protection
\* and stored value as they were. The copy a reader took through a read handle
\* (lastRead) and the caller's own copy of the value given to construct (shadow) stay
\* as they are through every statement of the cell's destruction.
C30_CellsIndependent ==
    /\ [](\A c \in Cells : Owns(c) =>
            /\ mem[cells[c].ptr].mapped
            /\ \A d \in Cells \ {c} : Owns(d) => cells[d].ptr # cells[c].ptr)
    /\ [][\A c \in Cells :
            /\ cells'[c] # cells[c] => \A d \in Cells \ {c} : cells'[d] = cells[d]
            /\ (Owns(c) /\ cells'[c] = cells[c]) =>
                    mem'[cells[c].ptr] = mem[cells[c].ptr]
            /\ (cells[c].st = "drop" \/ cells'[c].st = "drop") =>
                    /\ cells'[c].lastRead = cells[c].lastRead
                    /\ cells'[c].shadow = cells[c].shadow]_vars

\* C30 witness: the second cell was built, read through a read handle and destroyed
\* while the first one lived; the reader's copy still is the value, the region of the
\* second cell is gone, and the first cell is live, locked, at its floor, and holds
\* the value written through its handle.
C30_Witness ==
    /\ ncells = 2
    /\ cells[2].st = "dropped"
    /\ cells[2].lastRead \in CellValues
    /\ cells[2].lastRead = cells[2].shadow
    /\ cells[2].ptr # cells[1].ptr
    /\ ~mem[cells[2].ptr].mapped
    /\ cells[1].st = "live"
    /\ cells[1].stored
    /\ mem[cells[1].ptr].mapped
    /\ mem[cells[1].ptr].locked
    /\ mem[cells[1].ptr].prot = Floor(platform)
    /\ mem[cells[1].ptr].bytes = cells[1].shadow
    /\ cells[1].shadow \in CellValues

\* C31: dump exclusion. Construct requests it at most once, and exactly once on linux
\* for every construct that got as far as writing the value: the request comes right
\* after the successful lock, on a mapped, locked, still zero-filled region, and before
\* the value is written; a returned cell on linux has its region excluded from dumps.
\* On the builds without the facility (unix that is not linux, windows) the step does
\* not exist: a returned cell went through the other statements of construct only,
\* no region is ever marked, the request is never enabled, and no construct fails
\* at it.
C31_DumpExclusion ==
    \A c \in Cells :
        LET log == cells[c].nlog
            dumps == {i \in DOMAIN log : log[i] = "no_dump"}
        IN  /\ Cardinality(dumps) <= 1
            /\ platform = "linux" =>
                  /\ AtNew(c, "no_dump") =>
                        /\ dumps = {}
                        /\ log = <<"alloc", "lock">>
                        /\ mem[cells[c].ptr].mapped
                        /\ mem[cells[c].ptr].locked
                        /\ ~mem[cells[c].ptr].nodump
                        /\ mem[cells[c].ptr].bytes = Zeroes
                  /\ \A j \in DOMAIN log : log[j] = "write" =>
                        /\ j - 1 \in dumps
                        /\ log[j - 2] = "lock"
                  /\ cells[c].res = "Ok" => Cardinality(dumps) = 1
                  /\ cells[c].st \in {"live", "unwind"} => mem[cells[c].ptr].nodump
                  /\ (cells[c].st = "err" /\ log[Len(log)] = "no_dump") =>
                        /\ ~mem[cells[c].ptr].nodump
                        /\ mem[cells[c].ptr].bytes = Zeroes
            /\ platform # "linux" =>
                  /\ dumps = {}
                  /\ ~ENABLED NewNoDump(c)
                  /\ \A a \in Addrs : ~mem[a].nodump
                  /\ cells[c].res = "Ok" =>
                        log = <<"alloc", "lock", "write", "fill_zero", "protect">>
                  /\ cells[c].st = "err" => log[Len(log)] \in {"alloc", "lock", "protect"}

\* C31 witness: on linux a construct returned a cell whose region is excluded from
\* dumps, after one request that followed the lock and preceded the write.
C31_Witness ==
    \E c \in Cells :
        /\ platform = "linux"
        /\ cells[c].st = "live"
        /\ cells[c].res = "Ok"
        /\ cells[c].nlog = <<"alloc", "lock", "no_dump", "write", "fill_zero", "protect">>
        /\ mem[cells[c].ptr].nodump
        /\ mem[cells[c].ptr].locked
        /\ mem[cells[c].ptr].bytes # Zeroes
====
